---------------------------- MODULE Spec2Model ----------------------------
(***************************************************************************)
(* Black Hole Simulator API (backend/app): the orbit integrators of        *)
(* core/geodesics.py, the metric functions of core/observables.py and the  *)
(* request handlers of api/routes.py.                                      *)
(*                                                                         *)
(* Every number of the program is an IEEE-754 binary64 value (np.float64   *)
(* or a Python float).  The model keeps the format: round-to-nearest-even, *)
(* gradual underflow, overflow to infinity, NaN, and the exponent range of *)
(* binary64; only the significand is narrowed from 53 bits to Prec bits.   *)
(* A finite value is m * 2^e with m a signed integer of at most Prec bits, *)
(* kept canonical (m as wide as e >= QMin allows), so two finite values    *)
(* are equal iff their records are.  Zero carries no sign.                 *)
(***************************************************************************)
EXTENDS Integers, Sequences, FiniteSets, TLC

\* ------------------------------------------------------------- bounds
Prec == 12

\* ------------------------------------------------- binary64 exponents
EMax == 1023
EMin == -1022
QMin == EMin - (Prec - 1)
QMax == EMax - (Prec - 1)

\* ---------------------------------------------------- integer helpers
Pow2 == [k \in 0..30 |-> 2^k]

Abs(x) == IF x < 0 THEN -x ELSE x
Sgn(x) == IF x < 0 THEN -1 ELSE IF x > 0 THEN 1 ELSE 0
Max(x, y) == IF x >= y THEN x ELSE y
Min(x, y) == IF x <= y THEN x ELSE y

\* the number of bits of a, 0 <= a < 2^31, by halving the width
BitLen2(a) == IF a >= 2 THEN 2 ELSE a
BitLen4(a) == IF a >= 4 THEN 2 + BitLen2(a \div 4) ELSE BitLen2(a)
BitLen8(a) == IF a >= 16 THEN 4 + BitLen4(a \div 16) ELSE BitLen4(a)
BitLen16(a) == IF a >= 256 THEN 8 + BitLen8(a \div 256) ELSE BitLen8(a)
BitLen(a) == IF a >= 65536 THEN 16 + BitLen16(a \div 65536) ELSE BitLen16(a)

\* floor of the square root of a, a < 2^30, one result bit at a time
SqrtBit(a, root, bit) ==
    IF (root + Pow2[bit]) * (root + Pow2[bit]) <= a THEN root + Pow2[bit] ELSE root
ISqrt(a) ==
    LET r14 == SqrtBit(a, 0, 14)
        r13 == SqrtBit(a, r14, 13)
        r12 == SqrtBit(a, r13, 12)
        r11 == SqrtBit(a, r12, 11)
        r10 == SqrtBit(a, r11, 10)
        r9 == SqrtBit(a, r10, 9)
        r8 == SqrtBit(a, r9, 8)
        r7 == SqrtBit(a, r8, 7)
        r6 == SqrtBit(a, r7, 6)
        r5 == SqrtBit(a, r6, 5)
        r4 == SqrtBit(a, r5, 4)
        r3 == SqrtBit(a, r4, 3)
        r2 == SqrtBit(a, r3, 2)
        r1 == SqrtBit(a, r2, 1)
    IN  SqrtBit(a, r1, 0)

\* ------------------------------------------------------- float values
NaN == [k |-> "nan", m |-> 0, e |-> 0]
PInf == [k |-> "inf", m |-> 1, e |-> 0]
NInf == [k |-> "inf", m |-> -1, e |-> 0]
Zero == [k |-> "fin", m |-> 0, e |-> 0]
Inf(s) == IF s < 0 THEN NInf ELSE PInf

IsNaN(a) == a.k = "nan"
IsInf(a) == a.k = "inf"
isfinite(a) == a.k = "fin"
IsZero(a) == a.k = "fin" /\ a.m = 0

\* a finite value sg * q * 2^e with q >= 0 already canonical, or the infinity
\* it overflows to
Fin(sg, q, e) ==
    IF q = 0 THEN Zero
    ELSE IF e > QMax THEN Inf(sg)
    ELSE [k |-> "fin", m |-> sg * q, e |-> e]

\* a mantissa that rounding carried to 2^Prec is 2^(Prec-1) one exponent up
Carry(sg, q, e) == IF q = Pow2[Prec] THEN Fin(sg, Pow2[Prec - 1], e + 1) ELSE Fin(sg, q, e)

\* round to nearest, ties to even: q the kept bits, rem the dropped ones,
\* half the weight of the first dropped bit
RoundQ(sg, q, rem, half, e, st) ==
    Carry(sg, IF rem > half \/ (rem = half /\ (st = 1 \/ q % 2 = 1)) THEN q + 1 ELSE q, e)

\* an exact value: widen the mantissa by `up` bits
Widen(sg, a, e, up) == Fin(sg, a * Pow2[up], e - up)

\* sh: the number of low bits of a that do not fit
RoundSh(sg, a, e, st, len, sh) ==
    IF sh <= 0 THEN Widen(sg, a, e, Min(Prec - len, e - QMin))
    ELSE IF sh > len THEN Zero
    ELSE RoundQ(sg, a \div Pow2[sh], a % Pow2[sh], Pow2[sh - 1], e + sh, st)

RoundLen(sg, a, e, st, len) == RoundSh(sg, a, e, st, len, Max(len - Prec, QMin - e))

\* The binary64 nearest to sg * (a + st * eps) * 2^e, ties to even: a >= 0 an
\* integer below 2^31, st = 1 when the exact magnitude lies strictly between
\* a and a + 1.
RoundMag(sg, a, e, st) == IF a = 0 THEN Zero ELSE RoundLen(sg, a, e, st, BitLen(a))

Round(m, e, st) == RoundMag(Sgn(m), Abs(m), e, st)

FromInt(n) == Round(n, 0, 0)

\* 2^k as a value, EMin <= k <= EMax
PowerOfTwo(k) == [k |-> "fin", m |-> Pow2[Prec - 1], e |-> k - (Prec - 1)]
One == PowerOfTwo(0)
Two == PowerOfTwo(1)
Four == PowerOfTwo(2)
Half == PowerOfTwo(-1)
MinusOne == [k |-> "fin", m |-> -Pow2[Prec - 1], e |-> 1 - Prec]

\* m * 2^e, m an integer: the literal of a value that Prec bits hold exactly
Lit(m, e) == Round(m, e, 0)

FNeg(a) == IF a.k = "nan" THEN NaN ELSE [a EXCEPT !.m = -a.m]
FAbs(a) == IF a.k = "nan" THEN NaN ELSE [a EXCEPT !.m = Abs(a.m)]

\* -1, 0 or 1 as a < b, a = b, a > b; neither is NaN
Cmp(a, b) ==
    LET sa == Sgn(a.m)
        sb == Sgn(b.m)
        MagCmp == IF a.k = "inf" /\ b.k = "inf" THEN 0
                  ELSE IF a.k = "inf" THEN 1
                  ELSE IF b.k = "inf" THEN -1
                  ELSE IF a.e # b.e THEN (IF a.e > b.e THEN 1 ELSE -1)
                  ELSE Sgn(Abs(a.m) - Abs(b.m))
    IN  IF sa # sb THEN (IF sa < sb THEN -1 ELSE 1)
        ELSE IF sa = 0 THEN 0
        ELSE sa * MagCmp

\* IEEE comparisons: every comparison with NaN is false
FLt(a, b) == a.k # "nan" /\ b.k # "nan" /\ Cmp(a, b) < 0
FLe(a, b) == a.k # "nan" /\ b.k # "nan" /\ Cmp(a, b) <= 0
FEq(a, b) == a.k # "nan" /\ b.k # "nan" /\ Cmp(a, b) = 0

FAdd(a, b) ==
    IF a.k = "nan" \/ b.k = "nan" THEN NaN
    ELSE IF a.k = "inf" THEN (IF b.k = "inf" /\ b.m # a.m THEN NaN ELSE a)
    ELSE IF b.k = "inf" THEN b
    ELSE IF a.m = 0 THEN b
    ELSE IF b.m = 0 THEN a
    ELSE LET hi == IF a.e >= b.e THEN a ELSE b
             lo == IF a.e >= b.e THEN b ELSE a
             d == hi.e - lo.e
         IN  IF d >= Prec + 2 THEN hi
             ELSE Round(hi.m * Pow2[d] + lo.m, lo.e, 0)

FSub(a, b) == FAdd(a, FNeg(b))

FMul(a, b) ==
    IF a.k = "nan" \/ b.k = "nan" THEN NaN
    ELSE IF a.k = "inf" \/ b.k = "inf"
         THEN (IF a.m = 0 \/ b.m = 0 THEN NaN ELSE Inf(Sgn(a.m) * Sgn(b.m)))
    ELSE Round(a.m * b.m, a.e + b.e, 0)

\* the quotient of two mantissas widened to Prec bits
DivQ(sg, num, den, e) == RoundMag(sg, num \div den, e, IF num % den = 0 THEN 0 ELSE 1)
DivLen(a, b, la, lb) ==
    DivQ(Sgn(a.m) * Sgn(b.m), Abs(a.m) * Pow2[la] * Pow2[Prec + 2], Abs(b.m) * Pow2[lb],
         (a.e - la) - (Prec + 2) - (b.e - lb))

\* numpy's division: x / 0 is an infinity (0 / 0 is NaN), never an exception
FDiv(a, b) ==
    IF a.k = "nan" \/ b.k = "nan" THEN NaN
    ELSE IF a.k = "inf" THEN (IF b.k = "inf" THEN NaN
                              ELSE Inf(Sgn(a.m) * (IF b.m < 0 THEN -1 ELSE 1)))
    ELSE IF b.k = "inf" THEN Zero
    ELSE IF b.m = 0 THEN (IF a.m = 0 THEN NaN ELSE Inf(Sgn(a.m)))
    ELSE IF a.m = 0 THEN Zero
    ELSE DivLen(a, b, Prec - BitLen(Abs(a.m)), Prec - BitLen(Abs(b.m)))

\* the root of a mantissa widened to an even exponent e
SqrtRoot(wide, root, e) == RoundMag(1, root, e, IF root * root = wide THEN 0 ELSE 1)
SqrtWide(wide, e) == SqrtRoot(wide, ISqrt(wide), e)
SqrtOdd(a, la, e0, odd) ==
    SqrtWide(a.m * Pow2[la] * Pow2[Prec + 2 + odd], (e0 - odd) \div 2)
SqrtLen(a, la) == SqrtOdd(a, la, a.e - la - (Prec + 2), (a.e - la - (Prec + 2)) % 2)

\* np.sqrt: NaN below zero
FSqrt(a) ==
    IF a.k = "nan" THEN NaN
    ELSE IF a.m < 0 THEN NaN
    ELSE IF a.k = "inf" THEN PInf
    ELSE IF a.m = 0 THEN Zero
    ELSE SqrtLen(a, Prec - BitLen(a.m))

\* ------------------------------------------ exp, cos, sin (fixed point)
\* The library functions are evaluated in fixed point with FracBits fraction
\* bits and rounded to Prec bits: faithful to about one unit in the last place.
FracBits == 14
FixOne == Pow2[FracBits]
Ln2Fix20 == 726817
TwoPiFix == 102944
PiFix == 51472
HalfPiFix == 25736

\* floor(|a| * 2^fb) for a finite a with |a| * 2^fb < 2^30
ToFix(a, fb) ==
    LET s == a.e + fb
    IN  IF s >= 0 THEN Abs(a.m) * Pow2[s]
        ELSE IF -s > 30 THEN 0
        ELSE Abs(a.m) \div Pow2[-s]

\* exp(-f) for f in [0, ln 2), f and the result in units of 2^-FracBits
ExpNegFix(f) ==
    LET t6 == FixOne - f \div 6
        t5 == FixOne - (f * t6) \div (5 * FixOne)
        t4 == FixOne - (f * t5) \div (4 * FixOne)
        t3 == FixOne - (f * t4) \div (3 * FixOne)
        t2 == FixOne - (f * t3) \div (2 * FixOne)
    IN  FixOne - (f * t2) \div FixOne

\* exp(-y * 2^-20): n halvings of exp(-f), f the remainder below ln 2
ExpReduced(y) ==
    Round(ExpNegFix((y % Ln2Fix20) \div Pow2[20 - FracBits]), -FracBits - y \div Ln2Fix20, 0)

\* np.exp; the program only passes arguments <= 0 (or NaN)
FExp(a) ==
    IF a.k = "nan" THEN NaN
    ELSE IF a.k = "inf" THEN (IF a.m < 0 THEN Zero ELSE PInf)
    ELSE IF a.m = 0 THEN One
    ELSE IF a.m > 0 THEN PInf
    ELSE IF a.e + BitLen(Abs(a.m)) > 10 THEN Zero
    ELSE ExpReduced(ToFix(a, 20))

\* 2^k mod t for t < 2^17, fourteen doublings at a time
RECURSIVE Pow2Mod(_, _)
Pow2Mod(k, t) ==
    IF k <= 14 THEN Pow2[k] % t
    ELSE (Pow2Mod(k - 14, t) * (Pow2[14] % t)) % t

\* |a| mod 2 pi in units of 2^-FracBits, a finite
AngleFix(a) ==
    LET s == a.e + FracBits
    IN  IF s >= 0 THEN ((Abs(a.m) % TwoPiFix) * Pow2Mod(s, TwoPiFix)) % TwoPiFix
        ELSE ToFix(a, FracBits) % TwoPiFix

\* cos t and sin t for t in [0, pi/2], fixed point
CosFix(t) ==
    LET t2 == (t * t) \div FixOne
        c4 == FixOne - t2 \div 56
        c3 == FixOne - (t2 * c4) \div (30 * FixOne)
        c2 == FixOne - (t2 * c3) \div (12 * FixOne)
    IN  Max(0, FixOne - (t2 * c2) \div (2 * FixOne))

SinFix(t) ==
    LET t2 == (t * t) \div FixOne
        s4 == FixOne - t2 \div 72
        s3 == FixOne - (t2 * s4) \div (42 * FixOne)
        s2 == FixOne - (t2 * s3) \div (20 * FixOne)
        s1 == FixOne - (t2 * s2) \div (6 * FixOne)
    IN  Min(FixOne, (t * s1) \div FixOne)

\* cos and sin of an angle x in [0, 2 pi), by quadrant
CosAngle(x) ==
    IF x <= HalfPiFix THEN CosFix(x)
    ELSE IF x <= PiFix THEN -CosFix(PiFix - x)
    ELSE IF x <= PiFix + HalfPiFix THEN -CosFix(x - PiFix)
    ELSE CosFix(TwoPiFix - x)

SinAngle(x) ==
    IF x <= HalfPiFix THEN SinFix(x)
    ELSE IF x <= PiFix THEN SinFix(PiFix - x)
    ELSE IF x <= PiFix + HalfPiFix THEN -SinFix(x - PiFix)
    ELSE -SinFix(TwoPiFix - x)

\* np.cos, np.sin: NaN at an infinity, within [-1, 1] otherwise
FCos(a) ==
    IF a.k # "fin" THEN NaN
    ELSE IF a.e + BitLen(Abs(a.m)) <= -7 THEN One
    ELSE Round(CosAngle(AngleFix(a)), -FracBits, 0)

FSin(a) ==
    IF a.k # "fin" THEN NaN
    ELSE IF a.e + BitLen(Abs(a.m)) <= -7 THEN a
    ELSE Round(Sgn(a.m) * SinAngle(AngleFix(a)), -FracBits, 0)

\* the literal num / den of the source text, num and den below 2^30
Dec(num, den) == FDiv(FromInt(num), FromInt(den))

\* ---------------------------------------------- Python float operators
\* The outcome of an expression that may raise: err = "none" and the value,
\* or the exception raised.
Ok(v) == [err |-> "none", v |-> v]
Raise(kind) == [err |-> kind, v |-> NaN]

\* x ** k on Python floats, k in {2, 4}: OverflowError when a finite x gives
\* a result out of range, no error on underflow or for an infinite x.
Sq(x) == FMul(x, x)
PowChecked(x, y) == IF x.k = "fin" /\ y.k = "inf" THEN Raise("OverflowError") ELSE Ok(y)
PyPow(x, k) == PowChecked(x, IF k = 2 THEN Sq(x) ELSE Sq(Sq(x)))

\* x / y on Python floats: ZeroDivisionError for a zero divisor
PyDiv(x, y) == IF IsZero(y) THEN Raise("ZeroDivisionError") ELSE Ok(FDiv(x, y))

\* max(v, 0.0)
py_max0(v) == IF FLt(v, Zero) THEN Zero ELSE v

\* ------------------------------------------------------ observables.py
Particles == {"massive", "photon"}

f_schwarzschild(r, M) == FSub(One, FDiv(FMul(Two, M), r))

\* f * (1.0 + L2_over_r2) or f * L2_over_r2; ValueError for an unknown particle
veff2_of(f, L2_over_r2, particle) ==
    IF particle = "massive" THEN Ok(FMul(f, FAdd(One, L2_over_r2)))
    ELSE IF particle = "photon" THEN Ok(FMul(f, L2_over_r2))
    ELSE Raise("ValueError: particle")

\* one element of the vectorised result
veff2_schwarzschild(r, M, E, L, particle) ==
    veff2_of(f_schwarzschild(r, M), FDiv(FMul(L, L), FMul(r, r)), particle)

np_pi == Dec(355, 113)
np_sign(x) == IF x.k = "nan" THEN NaN ELSE FromInt(Sgn(x.m))
\* np.clip(x, 0.0, None)
np_clip0(x) == IF x.k = "nan" THEN NaN ELSE IF x.m < 0 THEN Zero ELSE x

erf_p == Dec(3275911, 10000000)
erf_a1 == Dec(254829592, 1000000000)
erf_a2 == Dec(-284496736, 1000000000)
erf_a3 == Dec(1421413741, 1000000000)
erf_a4 == Dec(-1453152027, 1000000000)
erf_a5 == Dec(1061405429, 1000000000)

\* (((((a5 * t + a4) * t) + a3) * t + a2) * t + a1) * t
erf_poly(t) ==
    FMul(FAdd(FMul(FAdd(FMul(FAdd(FMul(FAdd(FMul(erf_a5, t),
        erf_a4), t), erf_a3), t), erf_a2), t), erf_a1), t)

erf_of(sign, ax, t) ==
    FMul(sign, FSub(One, FMul(erf_poly(t), FExp(FMul(FNeg(ax), ax)))))

_erf_approx(x) ==
    erf_of(np_sign(x), FAbs(x), FDiv(One, FAdd(One, FMul(erf_p, FAbs(x)))))

lower_gamma_of(x, sqrt_x) ==
    FSub(FMul(FMul(Half, FSqrt(np_pi)), _erf_approx(sqrt_x)),
         FMul(sqrt_x, FExp(FNeg(x))))

_lower_gamma_3half(x) == lower_gamma_of(np_clip0(x), FSqrt(np_clip0(x)))

f_nc_schwarzschild(r, M, theta) ==
    LET x == FDiv(FMul(r, r), FMul(Four, theta))
        m == FMul(FDiv(FMul(Two, M), FSqrt(np_pi)), _lower_gamma_3half(x))
    IN  FSub(One, FDiv(FMul(Two, m), r))

veff2_nc_schwarzschild(r, M, theta, L, particle) ==
    veff2_of(f_nc_schwarzschild(r, M, theta), FDiv(FMul(L, L), FMul(r, r)), particle)

ueff_of(u, M, L, particle) ==
    IF particle = "massive"
    THEN Ok(FSub(FAdd(FMul(FNeg(M), u), FMul(FMul(Half, FMul(L, L)), FMul(u, u))),
                 FMul(FMul(FMul(M, L), L), FMul(FMul(u, u), u))))
    ELSE IF particle = "photon"
    THEN Ok(FSub(FMul(u, u), FMul(FMul(Two, M), FMul(FMul(u, u), u))))
    ELSE Raise("ValueError: particle")

ueff_schwarzschild(r, M, L, particle) == ueff_of(FDiv(One, r), M, L, particle)

\* -------------------------------------------------------- geodesics.py
RadialSigns == {"in", "out"}
\* the sign fixed at +1
SignOf_out(radial_sign) == One

SignOf(radial_sign) == IF radial_sign = "in" THEN MinusOne ELSE One

\* V_eff^2(r0) in _drdphi0_from_E and orbit_r_phi_nc: Python floats, so
\* q = (L * L) / (r0 * r0) raises ZeroDivisionError when r0 * r0 underflows
veff2_py(f0, particle, q) ==
    IF particle \notin Particles THEN Raise("ValueError: particle")
    ELSE IF q.err # "none" THEN q
    ELSE IF particle = "massive" THEN Ok(FMul(f0, FAdd(One, q.v)))
    ELSE Ok(FMul(f0, q.v))

veff2_at_r0(f0, L, r0, particle) ==
    veff2_py(f0, particle, PyDiv(FMul(L, L), FMul(r0, r0)))

\* inside = (r0**4 / (L**2)) * (E2 - veff2), evaluated left to right
inside_ratio(E, veff2, q) ==
    IF q.err # "none" THEN q ELSE Ok(FMul(q.v, FSub(FMul(E, E), veff2)))

inside_pows(E, veff2, p4, p2) ==
    IF p4.err # "none" THEN p4
    ELSE IF p2.err # "none" THEN p2
    ELSE inside_ratio(E, veff2, PyDiv(p4.v, p2.v))

inside_at_r0(E, L, r0, veff2) == inside_pows(E, veff2, PyPow(r0, 4), PyPow(L, 2))

\* the test of the radicand left out
ForbiddenCheck_off(inside) == FALSE

\* if inside < 0: raise ValueError
ForbiddenCheck(inside) == FLt(inside, Zero)

drdphi0_inside(radial_sign, inside) ==
    IF inside.err # "none" THEN inside
    ELSE IF ForbiddenCheck(inside.v) THEN Raise("ValueError: forbidden")
    ELSE Ok(FMul(SignOf(radial_sign), FSqrt(inside.v)))

drdphi0_veff(E, L, r0, radial_sign, veff2) ==
    IF veff2.err # "none" THEN veff2
    ELSE drdphi0_inside(radial_sign, inside_at_r0(E, L, r0, veff2.v))

_drdphi0_from_E(M, E, L, r0, particle, radial_sign) ==
    drdphi0_veff(E, L, r0, radial_sign,
                 veff2_at_r0(f_schwarzschild(r0, M), L, r0, particle))

\* np.linspace(start, stop, n, dtype=float64)[j], 0 <= j < n, n >= 2:
\* j * step + start, the last sample set to stop; a zero step divides first
linspace_step(start, stop, n, j, delta, step) ==
    IF j = n - 1 THEN stop
    ELSE IF FEq(step, Zero)
    THEN FAdd(FMul(FDiv(FromInt(j), FromInt(n - 1)), delta), start)
    ELSE FAdd(FMul(FromInt(j), step), start)

linspace(start, stop, n, j) ==
    linspace_step(start, stop, n, j, FSub(stop, start),
                  FDiv(FSub(stop, start), FromInt(n - 1)))

\* --------------------------------------------------------------- state
VARIABLES
    pc,       \* position of the call: idle, u_loop, u_ret, nc_loop, nc_ret, done
    op,       \* the operation called
    req,      \* its arguments
    phi,      \* the angle grid
    u, up,    \* orbit_u_phi: the arrays u and up
    r,        \* the array r of the integrator, as returned when the loop is left
    i,        \* loop index, counted from 1: the step computes sample i + 1
    steps,    \* loop iterations entered so far
    unew,     \* orbit_u_phi: u[i + 1] as computed by the last step, before marking
    stages,   \* orbit_r_phi_nc: the stage evaluations of the last step
    x, y,     \* the handler's x and y before truncation
    calls,    \* core functions called so far, in order
    resp      \* what the caller receives

vars == <<pc, op, req, phi, u, up, r, i, steps, unew, stages, x, y, calls, resp>>

\* an element of np.empty that was never assigned
Uninit == [k |-> "uninit", m |-> 0, e |-> 0]

NoResp ==
    [status |-> "none", code |-> 0, err |-> "none", phi |-> <<>>, r |-> <<>>,
     x |-> <<>>, y |-> <<>>, U_eff |-> <<>>, V_eff2 |-> <<>>,
     has_captured |-> FALSE, captured |-> FALSE, points_returned |-> 0,
     value |-> NaN]

Handlers == {"simulate", "simulate_nc", "veff", "veff_nc"}
ClientErrors == {"HTTPException: r0 > 2M", "HTTPException: r_min > 2M"}

\* except ValueError -> HTTPException(400); anything else leaves the handler
\* as it was raised (a 500 for the client); a core call just raises
IsValueError(kind) ==
    kind \in {"ValueError: M", "ValueError: L", "ValueError: r0", "ValueError: n",
              "ValueError: theta", "ValueError: particle", "ValueError: forbidden"}

StatusCode(o, kind) ==
    IF o \notin Handlers THEN 0
    ELSE IF kind \in ClientErrors THEN 400
    ELSE IF o \in {"simulate", "simulate_nc"} /\ IsValueError(kind) THEN 400
    ELSE 500

Failure(o, kind) ==
    [NoResp EXCEPT !.status = "error", !.err = kind, !.code = StatusCode(o, kind)]

\* seq[from:] = val, from counted from 1
Fill(seq, from, val) == [j \in 1..Len(seq) |-> IF j >= from THEN val ELSE seq[j]]

\* the grid started one sample late
Grid_shifted(start, stop, n) == [j \in 1..n |-> linspace(start, stop, n, j)]

Grid(start, stop, n) == [j \in 1..n |-> linspace(start, stop, n, j - 1)]

Init ==
    /\ pc = "idle"
    /\ op = "none"
    /\ req = [n |-> 0]
    /\ phi = <<>>
    /\ u = <<>>
    /\ up = <<>>
    /\ r = <<>>
    /\ i = 0
    /\ steps = 0
    /\ unew = Uninit
    /\ stages = <<>>
    /\ x = <<>>
    /\ y = <<>>
    /\ calls = <<>>
    /\ resp = NoResp

\* the call fails: nothing but the error reaches the caller
Fails(o, q, trace, kind) ==
    /\ pc' = "done"
    /\ op' = o
    /\ req' = q
    /\ calls' = trace
    /\ resp' = Failure(o, kind)
    /\ UNCHANGED <<phi, u, up, r, i, steps, unew, stages, x, y>>

\* the validation of orbit_u_phi without the test of r0
validate_u_no_r0(q) ==
    IF FLe(q.M, Zero) THEN "ValueError: M"
    ELSE IF FLe(q.L, Zero) THEN "ValueError: L"
    ELSE IF q.n < 10 THEN "ValueError: n"
    ELSE "none"

\* --------------------------------------------------------- orbit_u_phi
validate_u(q) ==
    IF FLe(q.M, Zero) THEN "ValueError: M"
    ELSE IF FLe(q.L, Zero) THEN "ValueError: L"
    ELSE IF FLe(q.r0, Zero) THEN "ValueError: r0"
    ELSE IF q.n < 10 THEN "ValueError: n"
    ELSE "none"

\* u0 = 1.0 / r0 and up0 = -(1.0 / (r0 * r0)) * drdphi0, then the arrays
orbit_u_phi_arrays(o, q, trace, u0, up0) ==
    /\ pc' = "u_loop"
    /\ op' = o
    /\ req' = q
    /\ calls' = trace
    /\ phi' = Grid(Zero, q.phi_max, q.n)
    /\ u' = [j \in 1..q.n |-> IF j = 1 THEN u0 ELSE Uninit]
    /\ up' = [j \in 1..q.n |-> IF j = 1 THEN up0 ELSE Uninit]
    /\ i' = 1
    /\ UNCHANGED <<r, steps, unew, stages, x, y, resp>>

orbit_u_phi_start(o, q, trace, bad, ic) ==
    IF bad # "none" THEN Fails(o, q, trace, bad)
    ELSE IF ic.err # "none" THEN Fails(o, q, Append(trace, "_drdphi0_from_E"), ic.err)
    ELSE orbit_u_phi_arrays(o, q, Append(trace, "_drdphi0_from_E"),
             FDiv(One, q.r0),
             FMul(FNeg(FDiv(One, FMul(q.r0, q.r0))), ic.v))

orbit_u_phi_enter(o, q, trace) ==
    orbit_u_phi_start(o, q, Append(trace, "orbit_u_phi"), validate_u(q),
        _drdphi0_from_E(q.M, q.E, q.L, q.r0, q.particle, q.radial_sign))

Three == FromInt(3)
Six == FromInt(6)

\* 3.0 * M * u_val * u_val
cubic(u_val, q) == FMul(FMul(FMul(Three, q.M), u_val), u_val)

f_massive(u_val, c, ml) ==
    IF ml.err # "none" THEN ml ELSE Ok(FSub(FAdd(ml.v, c), u_val))

\* the local function f of orbit_u_phi
f_rhs(u_val, q) ==
    IF q.particle = "massive"
    THEN f_massive(u_val, cubic(u_val, q), PyDiv(q.M, FMul(q.L, q.L)))
    ELSE IF q.particle = "photon" THEN Ok(FSub(cubic(u_val, q), u_val))
    ELSE Raise("ValueError: particle")

\* k1 + 2.0 * k2 + 2.0 * k3 + k4
rk4_sum(k1, k2, k3, k4) == FAdd(FAdd(FAdd(k1, FMul(Two, k2)), FMul(Two, k3)), k4)

\* w + 0.5 * h * k and w + h * k
half_step(w, h, k) == FAdd(w, FMul(FMul(Half, h), k))
full_step(w, h, k) == FAdd(w, FMul(h, k))

rk4_raise(kind) == [err |-> kind, u |-> NaN, up |-> NaN]

rk4_u_4(ui, vi, h, k1_u, k1_v, k2_u, k2_v, k3_u, k3_v, k4_u, k4_v) ==
    IF k4_v.err # "none" THEN rk4_raise(k4_v.err)
    ELSE [err |-> "none",
          u |-> FAdd(ui, FMul(FDiv(h, Six), rk4_sum(k1_u, k2_u, k3_u, k4_u))),
          up |-> FAdd(vi, FMul(FDiv(h, Six), rk4_sum(k1_v, k2_v, k3_v, k4_v.v)))]

rk4_u_3(ui, vi, h, q, k1_u, k1_v, k2_u, k2_v, k3_u, k3_v) ==
    IF k3_v.err # "none" THEN rk4_raise(k3_v.err)
    ELSE rk4_u_4(ui, vi, h, k1_u, k1_v, k2_u, k2_v, k3_u, k3_v.v,
                 full_step(vi, h, k3_v.v), f_rhs(full_step(ui, h, k3_u), q))

rk4_u_2(ui, vi, h, q, k1_u, k1_v, k2_u, k2_v) ==
    IF k2_v.err # "none" THEN rk4_raise(k2_v.err)
    ELSE rk4_u_3(ui, vi, h, q, k1_u, k1_v, k2_u, k2_v.v,
                 half_step(vi, h, k2_v.v), f_rhs(half_step(ui, h, k2_u), q))

rk4_u_1(ui, vi, h, q, k1_u, k1_v) ==
    IF k1_v.err # "none" THEN rk4_raise(k1_v.err)
    ELSE rk4_u_2(ui, vi, h, q, k1_u, k1_v.v,
                 half_step(vi, h, k1_v.v), f_rhs(half_step(ui, h, k1_u), q))

\* one pass of the loop body: u[i + 1] and up[i + 1]
rk4_u(ui, vi, h, q) == rk4_u_1(ui, vi, h, q, vi, f_rhs(ui, q))

\* if u[i + 1] <= 0
Crossed(u_next) == FLe(u_next, Zero)
\* the marking started one sample early
MarkFrom_early(k) == k

\* the first sample marked np.nan when step k crosses
MarkFrom(k) == k + 1

\* ----------------------------------- routes.py: simulate, simulate_nc
horizon(M) == FMul(Two, M)
CaptureTol == Dec(10005, 10000)

\* valid = np.isfinite(r) & np.isfinite(x) & np.isfinite(y)
Valid(rr, xx, yy, j) == isfinite(rr[j]) /\ isfinite(xx[j]) /\ isfinite(yy[j])

\* the cut placed one sample late
first_invalid_late(rr, xx, yy) ==
    IF \A j \in 1..Len(rr) : Valid(rr, xx, yy, j) THEN Len(rr)
    ELSE CHOOSE j \in 1..Len(rr) :
            /\ ~Valid(rr, xx, yy, j)
            /\ \A k \in 1..(j - 1) : Valid(rr, xx, yy, k)

\* the number of samples kept: all of them when np.all(valid), otherwise
\* int(np.argmax(~valid)), the index of the first invalid sample
first_invalid(rr, xx, yy) ==
    IF \A j \in 1..Len(rr) : Valid(rr, xx, yy, j) THEN Len(rr)
    ELSE (CHOOSE j \in 1..Len(rr) :
            /\ ~Valid(rr, xx, yy, j)
            /\ \A k \in 1..(j - 1) : Valid(rr, xx, yy, k)) - 1

\* np.min: NaN when an element is NaN
np_min(seq) ==
    IF \E j \in 1..Len(seq) : IsNaN(seq[j]) THEN NaN
    ELSE CHOOSE v \in {seq[j] : j \in 1..Len(seq)} : \A j \in 1..Len(seq) : FLe(v, seq[j])

\* the flag taken from the first sample instead of the minimum
captured_flag_first(rr, M) ==
    Len(rr) > 0 /\ FLe(rr[1], FMul(horizon(M), CaptureTol))

\* bool(len(r) > 0 and np.min(r) <= (r_h * 1.0005))
captured_flag(rr, M) ==
    Len(rr) > 0 /\ FLe(np_min(rr), FMul(horizon(M), CaptureTol))

truncated(o, q, ph, rr, xx, yy, keep) ==
    [NoResp EXCEPT
        !.status = "ok", !.code = 200,
        !.phi = SubSeq(ph, 1, keep), !.r = SubSeq(rr, 1, keep),
        !.x = SubSeq(xx, 1, keep), !.y = SubSeq(yy, 1, keep),
        !.has_captured = (o = "simulate"),
        !.captured = (o = "simulate" /\ captured_flag(SubSeq(rr, 1, keep), q.M)),
        !.points_returned = keep]

orbit_response(o, q, ph, rr, xx, yy) ==
    truncated(o, q, ph, rr, xx, yy, first_invalid(rr, xx, yy))

\* a direct call of the integrator returns (phi, r)
core_result(ph, rr) == [NoResp EXCEPT !.status = "ok", !.phi = ph, !.r = rr]

DeliverXY(o, q, ph, rr, xx, yy) ==
    /\ x' = xx
    /\ y' = yy
    /\ resp' = orbit_response(o, q, ph, rr, xx, yy)

\* what follows the return of the integrator: x = r * np.cos(phi),
\* y = r * np.sin(phi), truncation and the response
Deliver(o, q, ph, rr) ==
    IF o \in Handlers
    THEN DeliverXY(o, q, ph, rr,
                   [j \in 1..Len(rr) |-> FMul(rr[j], FCos(ph[j]))],
                   [j \in 1..Len(rr) |-> FMul(rr[j], FSin(ph[j]))])
    ELSE /\ x' = x
         /\ y' = y
         /\ resp' = core_result(ph, rr)

\* ---------------------------------------------- orbit_u_phi: the loop
UReturn(uu, vv, k, rr) ==
    /\ u' = uu
    /\ up' = vv
    /\ i' = k
    /\ r' = rr
    /\ pc' = "done"
    /\ Deliver(op, req, phi, rr)

\* r = 1.0 / u; return phi, r
ULeave(uu, vv, k) == UReturn(uu, vv, k, [j \in 1..Len(uu) |-> FDiv(One, uu[j])])

UStore(s) ==
    IF i + 1 <= req.n - 1
    THEN /\ u' = [u EXCEPT ![i + 1] = s.u]
         /\ up' = [up EXCEPT ![i + 1] = s.up]
         /\ i' = i + 1
         /\ pc' = "u_loop"
         /\ UNCHANGED <<r, x, y, resp>>
    ELSE ULeave([u EXCEPT ![i + 1] = s.u], [up EXCEPT ![i + 1] = s.up], i + 1)

UStepWith(s) ==
    IF s.err # "none"
    THEN /\ pc' = "done"
         /\ resp' = Failure(op, s.err)
         /\ steps' = steps + 1
         /\ UNCHANGED <<u, up, i, unew, r, x, y>>
    ELSE /\ unew' = s.u
         /\ steps' = steps + 1
         /\ IF Crossed(s.u)
            THEN ULeave(Fill(u, MarkFrom(i), NaN), Fill(up, MarkFrom(i), NaN), i)
            ELSE UStore(s)

\* for i in range(n - 1): one iteration; the iteration that leaves the loop
\* also returns, and the handler builds its response
UStep ==
    /\ pc = "u_loop"
    /\ UStepWith(rk4_u(u[i], up[i], FSub(phi[2], phi[1]), req))
    /\ UNCHANGED <<op, req, phi, stages, calls>>

\* ------------------------------------------------------ orbit_r_phi_nc
validate_nc(q) ==
    IF FLe(q.M, Zero) THEN "ValueError: M"
    ELSE IF FLe(q.theta, Zero) THEN "ValueError: theta"
    ELSE IF FLe(q.L, Zero) THEN "ValueError: L"
    ELSE IF FLe(q.r0, Zero) THEN "ValueError: r0"
    ELSE IF q.n < 10 THEN "ValueError: n"
    ELSE "none"

\* if (E * E) < veff2_0: raise ValueError
NcForbidden(E, veff2_0) == FLt(FMul(E, E), veff2_0)

orbit_r_phi_nc_start(o, q, trace, bad, veff2_0) ==
    IF bad # "none" THEN Fails(o, q, trace, bad)
    ELSE IF veff2_0.err # "none" THEN Fails(o, q, trace, veff2_0.err)
    ELSE IF NcForbidden(q.E, veff2_0.v) THEN Fails(o, q, trace, "ValueError: forbidden")
    ELSE /\ pc' = "nc_loop"
         /\ op' = o
         /\ req' = q
         /\ calls' = trace
         /\ phi' = Grid(Zero, q.phi_max, q.n)
         /\ r' = [j \in 1..q.n |-> IF j = 1 THEN q.r0 ELSE Uninit]
         /\ i' = 1
         /\ UNCHANGED <<u, up, steps, unew, stages, x, y, resp>>

orbit_r_phi_nc_enter(o, q, trace) ==
    orbit_r_phi_nc_start(o, q, Append(trace, "orbit_r_phi_nc"), validate_nc(q),
        veff2_at_r0(f_nc_schwarzschild(q.r0, q.M, q.theta), q.L, q.r0, q.particle))

\* -1e-12
NegTol == Lit(-590295810, -69)
\* the tolerance taken as 0
BelowTol_zero(inside) == FLt(inside, Zero)

BelowTol(inside) == FLt(inside, NegTol)

\* one evaluation of drdphi: its input, whether the radicand was computed,
\* the radicand before max(inside, 0.0), and the value returned
Stage(rin, has_rad, inside, k, err) ==
    [rin |-> rin, has_rad |-> has_rad, inside |-> inside, k |-> k, err |-> err]

\* (E * E) - f * (1.0 + (L * L) / (rval * rval)), resp. f * ((L * L) / (rval * rval))
radicand(rval, q) ==
    FSub(FMul(q.E, q.E),
         FMul(f_nc_schwarzschild(rval, q.M, q.theta),
              IF q.particle = "massive"
              THEN FAdd(One, FDiv(FMul(q.L, q.L), FMul(rval, rval)))
              ELSE FDiv(FMul(q.L, q.L), FMul(rval, rval))))

drdphi_inside(rval, q, inside) ==
    IF BelowTol(inside) THEN Stage(rval, TRUE, inside, NaN, "none")
    ELSE Stage(rval, TRUE, inside,
               FMul(FMul(SignOf(q.radial_sign), FDiv(FMul(rval, rval), q.L)),
                    FSqrt(py_max0(inside))),
               "none")

\* the local function drdphi of orbit_r_phi_nc
drdphi(rval, q) ==
    IF FLe(rval, Zero) \/ ~isfinite(rval) THEN Stage(rval, FALSE, NaN, NaN, "none")
    ELSE IF q.particle \notin Particles
    THEN Stage(rval, FALSE, NaN, NaN, "ValueError: particle")
    ELSE drdphi_inside(rval, q, radicand(rval, q))

\* if not np.isfinite(k): r[i + 1:] = np.nan; break
Stop(s) == ~isfinite(s.k)

rk4_nc_3(ri, h, q, s1, s2, s3) ==
    IF Stop(s3) THEN <<s1, s2, s3>>
    ELSE <<s1, s2, s3, drdphi(full_step(ri, h, s3.k), q)>>

rk4_nc_2(ri, h, q, s1, s2) ==
    IF Stop(s2) THEN <<s1, s2>>
    ELSE rk4_nc_3(ri, h, q, s1, s2, drdphi(half_step(ri, h, s2.k), q))

rk4_nc_1(ri, h, q, s1) ==
    IF Stop(s1) THEN <<s1>>
    ELSE rk4_nc_2(ri, h, q, s1, drdphi(half_step(ri, h, s1.k), q))

\* the stage evaluations of one pass of the loop body, up to the first
\* one that is not finite; none when r[i] itself is not finite
rk4_nc(ri, h, q) == IF ~isfinite(ri) THEN <<>> ELSE rk4_nc_1(ri, h, q, drdphi(ri, q))

\* r[i + 1] = ri + (h / 6.0) * (k1 + 2.0 * k2 + 2.0 * k3 + k4)
rk4_nc_next(ri, h, ss) ==
    FAdd(ri, FMul(FDiv(h, Six), rk4_sum(ss[1].k, ss[2].k, ss[3].k, ss[4].k)))

Broke(ss) == Len(ss) < 4 \/ Stop(ss[Len(ss)])
StageError(ss) == Len(ss) > 0 /\ ss[Len(ss)].err # "none"
\* the first sample filled with np.nan when step k breaks
FillFrom(k) == k + 1

NcReturn(rr, k) ==
    /\ r' = rr
    /\ i' = k
    /\ pc' = "done"
    /\ Deliver(op, req, phi, rr)

NcStepWith(ss, h) ==
    /\ stages' = ss
    /\ steps' = steps + 1
    /\ IF StageError(ss)
       THEN /\ pc' = "done"
            /\ resp' = Failure(op, ss[Len(ss)].err)
            /\ UNCHANGED <<r, i, x, y>>
       ELSE IF Broke(ss) THEN NcReturn(Fill(r, FillFrom(i), NaN), i)
       ELSE IF i + 1 <= req.n - 1
       THEN /\ r' = [r EXCEPT ![i + 1] = rk4_nc_next(r[i], h, ss)]
            /\ i' = i + 1
            /\ pc' = "nc_loop"
            /\ UNCHANGED <<x, y, resp>>
       ELSE NcReturn([r EXCEPT ![i + 1] = rk4_nc_next(r[i], h, ss)], i + 1)

NcStep ==
    /\ pc = "nc_loop"
    /\ NcStepWith(rk4_nc(r[i], FSub(phi[2], phi[1]), req), FSub(phi[2], phi[1]))
    /\ UNCHANGED <<op, req, phi, u, up, unew, calls>>

\* the horizon test with < for <=
SubHorizon_strict(rad, M) == FLt(rad, horizon(M))

\* ------------------------------------------------- routes.py: handlers
\* if req.r0 <= r_h, if req.r_min <= r_h
SubHorizon(rad, M) == FLe(rad, horizon(M))

Call_simulate(q) ==
    /\ pc = "idle"
    /\ IF SubHorizon(q.r0, q.M)
       THEN Fails("simulate", q, <<>>, "HTTPException: r0 > 2M")
       ELSE orbit_u_phi_enter("simulate", q, <<>>)

Call_simulate_nc(q) ==
    /\ pc = "idle"
    /\ orbit_r_phi_nc_enter("simulate_nc", q, <<>>)

Values(outs) == [j \in 1..Len(outs) |-> outs[j].v]

profile_response(o, q, trace, grid, V2, U) ==
    IF q.particle \notin Particles THEN Fails(o, q, trace, "ValueError: particle")
    ELSE /\ pc' = "done"
         /\ op' = o
         /\ req' = q
         /\ calls' = trace
         /\ resp' = [NoResp EXCEPT !.status = "ok", !.code = 200, !.r = grid,
                                   !.V_eff2 = Values(V2), !.U_eff = Values(U)]
         /\ UNCHANGED <<phi, u, up, r, i, steps, unew, stages, x, y>>

veff_profile(q, grid) ==
    profile_response("veff", q, <<"veff2_schwarzschild", "ueff_schwarzschild">>, grid,
        [j \in 1..Len(grid) |-> veff2_schwarzschild(grid[j], q.M, q.E, q.L, q.particle)],
        [j \in 1..Len(grid) |-> ueff_schwarzschild(grid[j], q.M, q.L, q.particle)])

Call_veff(q) ==
    /\ pc = "idle"
    /\ IF SubHorizon(q.r_min, q.M)
       THEN Fails("veff", q, <<>>, "HTTPException: r_min > 2M")
       ELSE veff_profile(q, Grid(q.r_min, q.r_max, q.n))

veff_nc_profile(q, grid) ==
    profile_response("veff_nc", q, <<"veff2_nc_schwarzschild">>, grid,
        [j \in 1..Len(grid) |->
            veff2_nc_schwarzschild(grid[j], q.M, q.theta, q.L, q.particle)],
        <<>>)

Call_veff_nc(q) ==
    /\ pc = "idle"
    /\ veff_nc_profile(q, Grid(q.r_min, q.r_max, q.n))

\* --------------------------------------- geodesics.py called directly
Call_orbit_u_phi(q) ==
    /\ pc = "idle"
    /\ orbit_u_phi_enter("orbit_u_phi", q, <<>>)

Call_orbit_r_phi_nc(q) ==
    /\ pc = "idle"
    /\ orbit_r_phi_nc_enter("orbit_r_phi_nc", q, <<>>)

drdphi0_result(q, out) ==
    /\ pc' = "done"
    /\ op' = "_drdphi0_from_E"
    /\ req' = q
    /\ calls' = <<"_drdphi0_from_E">>
    /\ resp' = IF out.err # "none" THEN Failure("_drdphi0_from_E", out.err)
               ELSE [NoResp EXCEPT !.status = "ok", !.value = out.v]
    /\ UNCHANGED <<phi, u, up, r, i, steps, unew, stages, x, y>>

Call_drdphi0(q) ==
    /\ pc = "idle"
    /\ drdphi0_result(q, _drdphi0_from_E(q.M, q.E, q.L, q.r0, q.particle, q.radial_sign))

\* ------------------------------------------------------------ requests
\* schemas.py: n >= 100 for the orbit requests, n >= 10 for the profiles;
\* geodesics.py: n >= 10
SimMinN == 100
VeffMinN == 10
OrbitMinN == 10
\* how many sample counts above the minimum are explored
NSpan == 1

Req(M, E, L, r0, theta, radial_sign, phi_max, n, particle, r_min, r_max) ==
    [M |-> M, E |-> E, L |-> L, r0 |-> r0, theta |-> theta,
     radial_sign |-> radial_sign, phi_max |-> phi_max, n |-> n,
     particle |-> particle, r_min |-> r_min, r_max |-> r_max]

\* an orbit request with the fields of the profile requests left at 1
Orbit(M, E, L, r0, radial_sign, phi_max, n, particle) ==
    Req(M, E, L, r0, One, radial_sign, phi_max, n, particle, One, One)

\* the smallest value above 2: with M = 1 it lies between 2M and 1.0005 * 2M
JustAbove2 == [k |-> "fin", m |-> Pow2[Prec - 1] + 1, e |-> 2 - Prec]
Huge == PowerOfTwo(300)
Tiny == PowerOfTwo(-600)

SimN == SimMinN..(SimMinN + NSpan - 1)

\* bodies that SimulateRequest and SimulateNCRequest accept: positive M, E,
\* L, r0, phi_max (an infinite value is positive), n >= 100
SimulateRequests ==
    {Orbit(One, E, L, r0, sg, FromInt(6), n, p) :
        E \in {One, Two}, L \in {One, Four}, r0 \in {FromInt(3), FromInt(7)},
        sg \in RadialSigns, n \in SimN, p \in Particles}
    \cup {Orbit(One, Half, One, FromInt(7), sg, FromInt(6), n, "massive") :
        sg \in RadialSigns, n \in SimN}
    \cup {Orbit(One, Two, One, r0, "in", FromInt(6), n, p) :
        r0 \in {One, Two, JustAbove2, Huge, PInf}, n \in SimN, p \in Particles}
    \cup {Orbit(One, Two, L, FromInt(7), "out", pm, n, "photon") :
        L \in {One, Tiny}, pm \in {PInf}, n \in SimN}

VeffN == VeffMinN..(VeffMinN + NSpan)

\* bodies that VeffRequest and VeffNCRequest accept: L >= 0, r_max > r_min > 0
VeffRequests ==
    {Req(M, One, L, One, One, "out", One, n, p, r_min, FromInt(50)) :
        M \in {Half, One}, L \in {Zero, FromInt(5)}, n \in VeffN, p \in Particles,
        r_min \in {Half, One, Two, JustAbove2, FromInt(3)}}

CoreN == OrbitMinN..(OrbitMinN + NSpan - 1)

\* arguments of the functions of geodesics.py, which take any float, any
\* int and any string
CoreRequests ==
    {Req(One, E, L, r0, One, sg, FromInt(6), n, p, One, One) :
        E \in {Half, One, Two}, L \in {One, Four}, r0 \in {One, FromInt(3), FromInt(10)},
        sg \in RadialSigns, n \in CoreN, p \in Particles}
    \cup {Req(One, PowerOfTwo(-30), L, r0, One, sg, pm, n, "photon", One, One) :
        L \in {PowerOfTwo(-28), PowerOfTwo(-27)}, r0 \in {FromInt(3), FromInt(10)},
        sg \in RadialSigns, pm \in {One, FromInt(6)}, n \in CoreN}
    \cup {Req(M, One, L, r0, th, "in", One, n, p, One, One) :
        M \in {MinusOne, Zero, One}, L \in {Zero, One}, r0 \in {Zero, FromInt(3)},
        th \in {Zero, One}, n \in {OrbitMinN - 1, OrbitMinN}, p \in {"massive", "unknown"}}
    \cup {Req(One, Two, L, r0, One, "out", pm, OrbitMinN, p, One, One) :
        L \in {Tiny, One}, r0 \in {Tiny, FromInt(3), Huge, PInf},
        pm \in {One, PInf}, p \in Particles}
    \cup {Req(PowerOfTwo(-260), One, PowerOfTwo(100), PowerOfTwo(-250), One, sg,
              One, OrbitMinN, "massive", One, One) : sg \in RadialSigns}

\* ------------------------------------------------------ specifications
\* the service: one request handled by one of the four handlers
Next ==
    \/ \E q \in SimulateRequests : Call_simulate(q)
    \/ \E q \in SimulateRequests : Call_simulate_nc(q)
    \/ \E q \in VeffRequests : Call_veff(q)
    \/ \E q \in VeffRequests : Call_veff_nc(q)
    \/ UStep
    \/ NcStep

Spec == Init /\ [][Next]_vars

\* the core called directly
CoreNext ==
    \/ \E q \in CoreRequests : Call_orbit_u_phi(q)
    \/ \E q \in CoreRequests : Call_orbit_r_phi_nc(q)
    \/ \E q \in CoreRequests : Call_drdphi0(q)
    \/ UStep
    \/ NcStep

CoreSpec == Init /\ [][CoreNext]_vars

\* -------------------------------------------------------------- claims
Returned == pc = "done" /\ resp.status = "ok"
OrbitHandlers == {"simulate", "simulate_nc"}
OrbitCalls == {"orbit_u_phi", "orbit_r_phi_nc"}

\* the indices of the samples of the integrator's output that are not finite
\* in r, x or y
Invalid == {j \in 1..Len(r) : ~(isfinite(r[j]) /\ isfinite(x[j]) /\ isfinite(y[j]))}
\* how many samples precede the first invalid one
Prefix == IF Invalid = {} THEN Len(r) ELSE (CHOOSE j \in Invalid : \A k \in Invalid : j <= k) - 1

\* C1: every orbit request that returns a result returns at most n samples,
\* phi, r, x and y all of length points_returned, every returned r, x and y
\* finite, and the samples returned are exactly those before the first index
\* at which r, x or y is not finite (all n of them when there is none).
C1_Truncation ==
    (Returned /\ op \in OrbitHandlers) =>
        /\ resp.points_returned <= req.n
        /\ Len(resp.phi) = resp.points_returned
        /\ Len(resp.r) = resp.points_returned
        /\ Len(resp.x) = resp.points_returned
        /\ Len(resp.y) = resp.points_returned
        /\ resp.points_returned = Prefix
        /\ \A j \in 1..resp.points_returned :
              /\ isfinite(resp.r[j]) /\ isfinite(resp.x[j]) /\ isfinite(resp.y[j])
              /\ resp.phi[j] = phi[j] /\ resp.r[j] = r[j]
              /\ resp.x[j] = x[j] /\ resp.y[j] = y[j]

\* a result cut short after some samples, on each path
C1_Witness ==
    /\ Returned /\ op = "simulate_nc"
    /\ resp.points_returned > 1 /\ resp.points_returned < req.n

ValidationErrors ==
    {"ValueError: M", "ValueError: L", "ValueError: r0", "ValueError: n",
     "ValueError: theta"}

\* the field an error names is out of range in the call
Offending(kind, q) ==
    \/ kind = "ValueError: M" /\ FLe(q.M, Zero)
    \/ kind = "ValueError: L" /\ FLe(q.L, Zero)
    \/ kind = "ValueError: r0" /\ FLe(q.r0, Zero)
    \/ kind = "ValueError: n" /\ q.n < OrbitMinN
    \/ kind = "ValueError: theta" /\ op = "orbit_r_phi_nc" /\ FLe(q.theta, Zero)

OutOfRange(q) == \E kind \in ValidationErrors : Offending(kind, q)

\* C4: orbit_u_phi and orbit_r_phi_nc reject every call with M <= 0, L <= 0,
\* r0 <= 0 or n < 10 (theta <= 0 as well for orbit_r_phi_nc) before the
\* initial-condition check and before any step, with an error naming a field
\* that is out of range and without a (phi, r) result; a call with every
\* field in range is not rejected by the validation.
C4_Validation ==
    (pc = "done" /\ op \in OrbitCalls) =>
        /\ OutOfRange(req) =>
              /\ resp.status = "error"
              /\ Offending(resp.err, req)
              /\ steps = 0
              /\ calls = <<op>>
              /\ resp.phi = <<>> /\ resp.r = <<>>
        /\ ~OutOfRange(req) => resp.err \notin ValidationErrors

\* theta <= 0 alone out of range, together with an unknown particle
C4_Witness ==
    /\ pc = "done" /\ op = "orbit_r_phi_nc"
    /\ resp.err = "ValueError: theta"
    /\ req.particle \notin Particles

NoData ==
    /\ resp.phi = <<>> /\ resp.r = <<>> /\ resp.x = <<>> /\ resp.y = <<>>
    /\ resp.U_eff = <<>> /\ resp.V_eff2 = <<>>

\* C5: on the classical metric an orbit request with r0 <= 2M and a profile
\* request with r_min <= 2M fail with the sub-horizon error, return no data,
\* and no integrator or potential function has been called; a request with
\* r0 > 2M (r_min > 2M) is never rejected with that error; veff_nc and
\* simulate_nc never fail with a sub-horizon error.
C5_SubHorizon ==
    pc = "done" =>
        /\ op = "simulate" =>
              IF FLe(req.r0, FMul(Two, req.M))
              THEN /\ resp.status = "error" /\ resp.code = 400
                   /\ resp.err = "HTTPException: r0 > 2M"
                   /\ NoData /\ calls = <<>> /\ steps = 0
              ELSE resp.err \notin ClientErrors
        /\ op = "veff" =>
              IF FLe(req.r_min, FMul(Two, req.M))
              THEN /\ resp.status = "error" /\ resp.code = 400
                   /\ resp.err = "HTTPException: r_min > 2M"
                   /\ NoData /\ calls = <<>>
              ELSE resp.err \notin ClientErrors /\ resp.status = "ok"
        /\ op \in {"veff_nc", "simulate_nc"} => resp.err \notin ClientErrors

\* an orbit request starting exactly on the horizon
C5_Witness ==
    /\ pc = "done" /\ op = "simulate"
    /\ req.r0 = FMul(Two, req.M)
    /\ resp.err = "HTTPException: r0 > 2M"

\* C6: for every classical orbit result captured is true exactly when the
\* truncated sequence is not empty and some returned r, hence its minimum,
\* is <= 1.0005 * 2M; the regularized orbit result has no captured flag.
C6_Captured ==
    Returned =>
        /\ op = "simulate" =>
              /\ resp.has_captured
              /\ resp.captured <=>
                    /\ resp.points_returned > 0
                    /\ \E j \in 1..Len(resp.r) :
                          FLe(resp.r[j], FMul(Dec(10005, 10000), FMul(Two, req.M)))
        /\ op = "simulate_nc" => ~resp.has_captured /\ ~resp.captured

\* a captured orbit that was cut short, the start outside the capture radius
C6_Witness ==
    /\ Returned /\ op = "simulate" /\ resp.captured
    /\ resp.points_returned < req.n
    /\ ~FLe(resp.r[1], FMul(Dec(10005, 10000), FMul(Two, req.M)))

\* a sample set to a non-finite value (an element never assigned is neither
\* finite nor non-finite)
NonFinite(v) == v.k \in {"inf", "nan"}
StepSize == FSub(phi[2], phi[1])

\* the request passes the consistency test of its integrator: the radicand
\* (r0^4 / L^2) * (E^2 - V_eff^2(r0)) is not negative in orbit_u_phi, E^2 is
\* not below V_eff^2(r0) in orbit_r_phi_nc
RadicandAtR0(q) ==
    inside_at_r0(q.E, q.L, q.r0,
        veff2_at_r0(f_schwarzschild(q.r0, q.M), q.L, q.r0, q.particle).v)
Consistent(o, q) ==
    /\ q.particle \in Particles
    /\ IF o = "orbit_u_phi"
       THEN RadicandAtR0(q).err = "none" /\ ~FLt(RadicandAtR0(q).v, Zero)
       ELSE ~FLt(FMul(q.E, q.E),
                 veff2_nc_schwarzschild(q.r0, q.M, q.theta, q.L, q.particle).v)

\* C3: in both integrators the consistency test has been passed before the
\* first RK4 step is taken, every error of an orbit call is raised before the
\* first step, and once a step has been taken the call returns (phi, r), both
\* of length n: a crossing u <= 0 or a stopped stage leaves a result whose
\* tail is non-finite, never an error.
C3_ErrorsBeforeStepping ==
    op \in OrbitCalls =>
        /\ steps >= 1 => Consistent(op, req)
        /\ resp.status = "error" => steps = 0 /\ pc = "done"
        /\ (pc = "done" /\ steps >= 1) =>
              /\ resp.status = "ok"
              /\ Len(resp.phi) = req.n /\ Len(resp.r) = req.n
              /\ steps < req.n - 1 => NonFinite(resp.r[req.n])

\* an integration that ended early, after some steps, with a result
C3_Witness ==
    /\ pc = "done" /\ op = "orbit_r_phi_nc"
    /\ steps >= 2 /\ steps < req.n - 1
    /\ resp.status = "ok" /\ isfinite(resp.r[2])

\* C7: in orbit_u_phi, while no computed u[i+1] is <= 0 one step follows the
\* other until n - 1 are taken; at the first step that computes u[i+1] <= 0
\* that sample and all later ones are NaN in u and non-finite in r and no
\* further step is taken, the samples before it keep their values (the last
\* of them is still the one the crossing step started from); r = 1/u
\* elementwise and phi and r both have length n.
C7_ClassicalLoop ==
    op = "orbit_u_phi" =>
        /\ pc = "u_loop" =>
              /\ steps = i - 1
              /\ \A j \in 2..i : ~FLe(u[j], Zero)
        /\ Returned =>
              /\ Len(resp.phi) = req.n /\ Len(resp.r) = req.n
              /\ \A j \in 1..req.n : resp.r[j] = FDiv(One, u[j])
              /\ \A j \in 2..steps : ~FLe(u[j], Zero)
              /\ unew = rk4_u(u[steps], up[steps], StepSize, req).u
              /\ IF FLe(unew, Zero)
                 THEN \A j \in (steps + 1)..req.n : IsNaN(u[j]) /\ NonFinite(resp.r[j])
                 ELSE steps = req.n - 1 /\ u[req.n] = unew

\* a crossing in the middle of the integration
C7_Witness ==
    /\ Returned /\ op = "orbit_u_phi"
    /\ FLe(unew, Zero)
    /\ steps > 1 /\ steps < req.n - 1
    /\ isfinite(resp.r[steps])

BadInput(s) == ~isfinite(s.rin) \/ FLe(s.rin, Zero)
BadRadicand(s) == s.has_rad /\ FLt(s.inside, NegTol)
TinyRadicand(s) == s.has_rad /\ FLt(s.inside, Zero) /\ ~FLt(s.inside, NegTol)
Offends(s) == BadInput(s) \/ BadRadicand(s)

\* C8: in orbit_r_phi_nc, when a stage of a step has an input radius that is
\* non-finite or <= 0, or a radicand below -1e-12, no later stage is
\* evaluated, the call returns, every sample after the one the step started
\* from is NaN and that sample is unchanged; a stage whose radicand lies in
\* [-1e-12, 0) returns the derivative of radicand 0 and the step goes on.
C8_RegularizedLoop ==
    (op = "orbit_r_phi_nc" /\ steps >= 1) =>
        /\ \A k \in 1..Len(stages) :
              /\ Offends(stages[k]) =>
                    /\ k = Len(stages)
                    /\ Returned
                    /\ \A j \in (steps + 1)..req.n : IsNaN(r[j])
                    /\ r[steps] = stages[1].rin
              /\ TinyRadicand(stages[k]) =>
                    /\ FEq(stages[k].k, Zero)
                    /\ k < 4 => Len(stages) > k
                    /\ (k = 4 /\ pc = "done") => steps = req.n - 1
        /\ Len(stages) = 0 =>
              /\ ~isfinite(r[steps])
              /\ Returned
              /\ \A j \in (steps + 1)..req.n : IsNaN(r[j])

\* a stage with a radicand in [-1e-12, 0) in a step that is not the first
C8_Witness ==
    /\ op = "orbit_r_phi_nc" /\ steps >= 1
    /\ \E k \in 1..Len(stages) : TinyRadicand(stages[k])

\* C10: in orbit_r_phi_nc, over consecutive finite samples, r does not
\* increase when radial_sign = in and does not decrease when radial_sign = out.
C10_Monotone ==
    op = "orbit_r_phi_nc" =>
        \A j \in 1..(Len(r) - 1) :
            (isfinite(r[j]) /\ isfinite(r[j + 1])) =>
                IF req.radial_sign = "in" THEN FLe(r[j + 1], r[j])
                ELSE FLe(r[j], r[j + 1])

\* an inward orbit whose radius has strictly decreased
C10_Witness ==
    /\ Returned /\ op = "orbit_r_phi_nc" /\ req.radial_sign = "in"
    /\ isfinite(r[3]) /\ FLt(r[3], r[1])

PositiveArgs(q) ==
    /\ FLt(Zero, q.M) /\ FLt(Zero, q.L) /\ FLt(Zero, q.r0) /\ FLt(Zero, q.E)
    /\ q.particle \in Particles

\* E^2 and V_eff^2(r0) as the potential function gives it
E2(q) == FMul(q.E, q.E)
Veff2AtR0(q) == veff2_schwarzschild(q.r0, q.M, q.E, q.L, q.particle).v

\* C2: for M, L, r0, E > 0 and a known particle, _drdphi0_from_E fails with
\* the forbidden-parameter error whenever E^2 < V_eff^2(r0) and succeeds
\* otherwise, returning 0 when E^2 = V_eff^2(r0), a value <= 0 for
\* radial_sign = in and >= 0 for out, of magnitude
\* sqrt((r0^4 / L^2) * (E^2 - V_eff^2(r0))).
C2_InitialCondition ==
    (pc = "done" /\ op = "_drdphi0_from_E" /\ PositiveArgs(req)) =>
        IF FLt(E2(req), Veff2AtR0(req))
        THEN resp.err = "ValueError: forbidden"
        ELSE /\ resp.status = "ok"
             /\ FEq(E2(req), Veff2AtR0(req)) => FEq(resp.value, Zero)
             /\ req.radial_sign = "in" => FLe(resp.value, Zero)
             /\ req.radial_sign = "out" => FLe(Zero, resp.value)
             /\ FAbs(resp.value) =
                   FSqrt(FMul(FDiv(Sq(Sq(req.r0)), Sq(req.L)),
                              FSub(E2(req), Veff2AtR0(req))))

\* C9 as stated: every orbit request that returns a result returns at least
\* one sample, the first being phi = 0, r = r0, x = r0, y = 0, so that
\* captured is min(r) <= 1.0005 * 2M.
C9_FirstSampleIsR0 ==
    (Returned /\ op \in OrbitHandlers) =>
        /\ resp.points_returned >= 1
        /\ resp.phi[1] = Zero
        /\ resp.r[1] = req.r0
        /\ resp.x[1] = req.r0
        /\ resp.y[1] = Zero
        /\ op = "simulate" =>
              (resp.captured <=>
                  FLe(np_min(resp.r), FMul(Dec(10005, 10000), FMul(Two, req.M))))

\* C9, amended: an orbit request with finite r0 and phi_max that returns a
\* result returns at least one sample, the first being phi = 0, y = 0 and
\* x = r, with r = r0 on the regularized path and r = 1/(1/r0) on the
\* classical path, which is within two roundings of r0; with an infinite r0
\* or phi_max the result is the empty trajectory, captured false.
C9_FirstSample ==
    (Returned /\ op \in OrbitHandlers) =>
        IF isfinite(req.r0) /\ isfinite(req.phi_max)
        THEN /\ resp.points_returned >= 1
             /\ resp.phi[1] = Zero
             /\ resp.y[1] = Zero
             /\ resp.x[1] = resp.r[1]
             /\ resp.r[1] = IF op = "simulate_nc" THEN req.r0
                            ELSE FDiv(One, FDiv(One, req.r0))
             /\ FLe(FAbs(FSub(resp.r[1], req.r0)), FMul(req.r0, PowerOfTwo(2 - Prec)))
        ELSE /\ resp.points_returned = 0
             /\ resp.r = <<>>
             /\ ~resp.captured

\* a classical result whose first radius is not r0 itself
C9_Witness ==
    /\ Returned /\ op = "simulate"
    /\ resp.points_returned >= 1
    /\ resp.r[1] # req.r0

=============================================================================
